---- MODULE Spec2Model ----
(***************************************************************************)
(* The resync progress estimator of drbd_proc.c: drbd_get_syncer_progress  *)
(* and drbd_syncer_progress, with the state of struct drbd_device they     *)
(* read, the driver that changes that state, and the /proc output.         *)
(*                                                                         *)
(* Work-unit quantities (bitmap bits) are C's unsigned long.  They are     *)
(* kept at their full width, BITS_PER_LONG bits, as little-endian tuples   *)
(* of 16-bit limbs, so that totals of 2^38 bits and wrapped subtractions   *)
(* are the values the code computes.                                       *)
(***************************************************************************)
EXTENDS Integers, Sequences, FiniteSets

\* unsigned long on the build where rs_total may exceed UINT_MAX
BITS_PER_LONG == 64

\* an unsigned long is kept as four limbs, least significant first
LimbBits == BITS_PER_LONG \div 4
LimbBase == 2^LimbBits
NLimbs == BITS_PER_LONG \div LimbBits
Limbs == 1..NLimbs
\* the unsigned long whose limb i is L(i)
Tup(L(_)) == <<L(1), L(2), L(3), L(4)>>

\* the unsigned long with value n, for 0 <= n < 2^31
UL(n) == Tup(LAMBDA i : IF i = 1 THEN n % LimbBase
                          ELSE IF i = 2 THEN n \div LimbBase ELSE 0)

\* 2^k as an unsigned long, 0 <= k < BITS_PER_LONG
Pow2UL(k) == Tup(LAMBDA i : IF i = (k \div LimbBits) + 1 THEN 2^(k % LimbBits) ELSE 0)

\* the value of a as a number, for a < 2^31
ToNat(a) == a[1] + a[2] * LimbBase

FitsNat(a) == a[2] < 2^(31 - LimbBits) /\ \A i \in Limbs : i > 2 => a[i] = 0

\* a < 2^32
Fits32(a) == \A i \in Limbs : i > 2 => a[i] = 0

RECURSIVE LtFrom(_, _, _)
LtFrom(a, b, i) ==
    IF i = 0 THEN FALSE
    ELSE IF a[i] # b[i] THEN a[i] < b[i]
    ELSE LtFrom(a, b, i - 1)

\* a < b, a > b, a <= b on unsigned long
ULt(a, b) == LtFrom(a, b, NLimbs)
UGt(a, b) == ULt(b, a)
ULe(a, b) == ~ULt(b, a)

RECURSIVE BorrowIn(_, _, _)
BorrowIn(a, b, i) ==
    IF i = 1 THEN 0
    ELSE IF a[i-1] - b[i-1] - BorrowIn(a, b, i - 1) < 0 THEN 1 ELSE 0

\* a - b modulo 2^BITS_PER_LONG
USub(a, b) == Tup(LAMBDA i : (a[i] - b[i] - BorrowIn(a, b, i) + LimbBase) % LimbBase)

RECURSIVE CarryIn(_, _, _)
CarryIn(a, b, i) ==
    IF i = 1 THEN 0
    ELSE (a[i-1] + b[i-1] + CarryIn(a, b, i - 1)) \div LimbBase

\* a + b modulo 2^BITS_PER_LONG
UAdd(a, b) == Tup(LAMBDA i : (a[i] + b[i] + CarryIn(a, b, i)) % LimbBase)

\* a >> s, 0 <= s <= LimbBits
UShr(a, s) ==
    Tup(LAMBDA i : (a[i] \div 2^s)
                     + ((IF i < NLimbs THEN a[i+1] ELSE 0) % 2^s) * 2^(LimbBits - s))

\* a << s modulo 2^BITS_PER_LONG, 0 <= s <= LimbBits
UShl(a, s) ==
    Tup(LAMBDA i : ((a[i] * 2^s) % LimbBase)
                     + (IF i > 1 THEN a[i-1] \div 2^(LimbBits - s) ELSE 0))

RECURSIVE MulCarry(_, _, _)
MulCarry(a, m, i) ==
    IF i = 1 THEN 0
    ELSE (a[i-1] * m + MulCarry(a, m, i - 1)) \div LimbBase

\* a * m modulo 2^BITS_PER_LONG, for 0 <= m < 2^15
UMulSmall(a, m) == Tup(LAMBDA i : (a[i] * m + MulCarry(a, m, i)) % LimbBase)

RECURSIVE RemAbove(_, _, _)
RemAbove(a, d, i) ==
    IF i = NLimbs THEN 0
    ELSE (RemAbove(a, d, i + 1) * LimbBase + a[i+1]) % d

\* a / d, for 0 < d < 2^15
UDivSmall(a, d) == Tup(LAMBDA i : (RemAbove(a, d, i) * LimbBase + a[i]) \div d)

\* a % d, for 0 < d < 2^15
UModSmall(a, d) == (RemAbove(a, d, 1) * LimbBase + a[1]) % d

UBit(a, k) == (a[(k \div LimbBits) + 1] \div 2^(k % LimbBits)) % 2

USetBit(a, k) ==
    Tup(LAMBDA i : IF i = (k \div LimbBits) + 1 THEN a[i] + 2^(k % LimbBits) ELSE a[i])

\* (r << 1) | bit, with the bit shifted out
UShl1(r, bit) ==
    [c |-> r[NLimbs] \div 2^(LimbBits - 1),
     v |-> Tup(LAMBDA i : ((r[i] * 2) % LimbBase)
                            + (IF i = 1 THEN bit ELSE r[i-1] \div 2^(LimbBits - 1)))]

RECURSIVE TopLimb(_, _)
TopLimb(a, i) == IF i = 1 \/ a[i] # 0 THEN i ELSE TopLimb(a, i - 1)

\* binary long division: bits k..0 of a still to bring down, q the quotient
\* bits found so far, r < b the running remainder
RECURSIVE DivLoop(_, _, _, _, _)
DivLoop(a, b, k, q, r) ==
    IF k < 0 \/ ~ULt(r, b) \/ UBit(q, k) # 0 THEN q
    ELSE LET s == UShl1(r, UBit(a, k))
             ge == s.c = 1 \/ ~ULt(s.v, b)
         IN DivLoop(a, b, k - 1,
                    IF ge THEN USetBit(q, k) ELSE q,
                    IF ge THEN USub(s.v, b) ELSE s.v)

\* a / b on unsigned long, b # 0.  Operands that fit the checker's integers
\* are divided directly; the quotient is the same.
UDiv(a, b) ==
    IF FitsNat(a) /\ FitsNat(b) THEN UL(ToNat(a) \div ToNat(b))
    ELSE DivLoop(a, b, TopLimb(a, NLimbs) * LimbBits - 1, UL(0), UL(0))


(***************************************************************************)
(* Constants of the build.                                                 *)
(***************************************************************************)

\* sample slots of the ring rs_mark_time[] / rs_mark_left[]
DRBD_SYNC_MARKS == 8

\* seconds between two samples
DRBD_SYNC_MARK_STEP == 3

\* jiffies per second
HZ == 2

\* log2 of the bytes one bitmap bit stands for ("4k per bit")
BM_BLOCK_SHIFT == 12

\* the largest bitmap the estimator is written for, as a power of two
PETABYTE_BITS == 38

\* bits to kilobytes, and bits to 512-byte sectors
Bit2KB(bits) == UShl(bits, BM_BLOCK_SHIFT - 10)
BM_SECT_PER_BIT_SHIFT == BM_BLOCK_SHIFT - 9

UINT_MAX == USub(Pow2UL(32), UL(1))

\* the value of an unsigned long stored into an unsigned int
ToUInt(a) == <<a[1], a[2], 0, 0>>

ReplStates == {"L_SYNC_SOURCE", "L_SYNC_TARGET", "L_VERIFY_S", "L_VERIFY_T"}

IsVerify(repl_state) == repl_state = "L_VERIFY_S" \/ repl_state = "L_VERIFY_T"

Slots == 0..(DRBD_SYNC_MARKS - 1)

\* array[slot] of a C array kept as a tuple
At(array, slot) == array[slot + 1]

(***************************************************************************)
(* drbd_get_syncer_progress                                                *)
(***************************************************************************)

\* *bits_left: what is still to do, by the kind of operation
BitsLeft(device) ==
    IF IsVerify(device.repl_state)
    THEN device.ov_left
    ELSE USub(device.bm_weight, device.rs_failed)

\* the test of the warning branch
\* the comparison with >= in place of > (C3)
RemainingReachesTotal(bits_left, rs_total) == ~ULt(bits_left, rs_total)

RemainingExceedsTotal(bits_left, rs_total) == UGt(bits_left, rs_total)

\* the shift of the small totals used for every total (C6)
SyncShiftAlwaysTen(rs_total) == 10

SyncShift(rs_total) == IF UGt(rs_total, UINT_MAX) THEN 16 ELSE 10

\* left, total and left * 1000UL of the else branch
\* the shifted remainder rounded up instead of down (C4)
PerMilLeftRoundedUp(bits_left, rs_total) ==
    UAdd(UShr(bits_left, SyncShift(rs_total)), UL(1))

PerMilLeft(bits_left, rs_total) == UShr(bits_left, SyncShift(rs_total))
PerMilTotal(rs_total) == UAdd(UL(1), UShr(rs_total, SyncShift(rs_total)))
PerMilProduct(bits_left, rs_total) == UMulSmall(PerMilLeft(bits_left, rs_total), 1000)

\* tmp = 1000UL - left * 1000UL/total; *per_mil_done = tmp
\* the quotient added to 1000 instead of subtracted from it (C1)
PerMilDoneSignSlip(bits_left, rs_total) ==
    ToUInt(UAdd(UL(1000), UDiv(PerMilProduct(bits_left, rs_total),
                               PerMilTotal(rs_total))))

PerMilDone(bits_left, rs_total) ==
    ToUInt(USub(UL(1000),
                UDiv(PerMilProduct(bits_left, rs_total), PerMilTotal(rs_total))))

drbd_get_syncer_progress(device) ==
    LET bits_left == BitsLeft(device)
    IN  IF RemainingExceedsTotal(bits_left, device.rs_total)
        THEN [bits_left |-> bits_left,
              per_mil_done |-> UL(0),
              warn |-> {[cs |-> device.repl_state, rs_left |-> bits_left,
                         rs_total |-> device.rs_total,
                         rs_failed |-> device.rs_failed]}]
        ELSE [bits_left |-> bits_left,
              per_mil_done |-> PerMilDone(bits_left, device.rs_total),
              warn |-> {}]

(***************************************************************************)
(* drbd_syncer_progress                                                    *)
(***************************************************************************)

Repeat(c, n) == [k \in 1..n |-> c]

\* the characters the two loops and the marker put between "[" and "]"
ProgressBar(res) ==
    LET x == ToNat(UDivSmall(res, 50))
        y == 20 - x
    IN  Repeat("=", IF x > 1 THEN x - 1 ELSE 0)
        \o <<">">>
        \o Repeat(".", IF y > 0 THEN y ELSE 0)

\* the slot of the ~18s window, and of the ~3s window
\* the slot right after the cursor, the one the appender writes (C10)
NextSlotIndex(rs_last_mark) == (rs_last_mark + 1) % DRBD_SYNC_MARKS

ShortWindowIndex(rs_last_mark) == (rs_last_mark + 2) % DRBD_SYNC_MARKS
VeryShortWindowIndex(rs_last_mark) ==
    (rs_last_mark + DRBD_SYNC_MARKS - 1) % DRBD_SYNC_MARKS

\* dt = (jiffies - mark) / HZ
ElapsedSeconds(now, mark) == (now - mark) \div HZ

\* the threshold itself counted as stalled (C5)
IsStalledAtThreshold(dt) == dt >= DRBD_SYNC_MARK_STEP * DRBD_SYNC_MARKS

IsStalled(dt) == dt > DRBD_SYNC_MARK_STEP * DRBD_SYNC_MARKS

\* if (!dt) dt++
AtLeastOne(dt) == IF dt = 0 THEN 1 ELSE dt

\* rt = (dt * (rs_left / (db/100+1)))/100
RemainingTime(dt, rs_left, db) ==
    UDivSmall(UMulSmall(UDiv(rs_left, UAdd(UDivSmall(db, 100), UL(1))), dt), 100)

\* dbdt = Bit2KB(db/dt)
Speed(db, dt) == Bit2KB(UDivSmall(db, dt))

\* db = device->rs_mark_left[i] - rs_left
ShortWindowDelta(device) ==
    USub(At(device.rs_mark_left, ShortWindowIndex(device.rs_last_mark)),
         BitsLeft(device))

\* db = device->rs_total - rs_left
LongWindowDelta(device) == USub(device.rs_total, BitsLeft(device))

\* what one call prints
SyncerProgressText(device, now, details) ==
    LET p == drbd_get_syncer_progress(device)
        rs_left == p.bits_left
        res == p.per_mil_done
        i == ShortWindowIndex(device.rs_last_mark)
        dt0 == ElapsedSeconds(now, At(device.rs_mark_time, i))
        dt == AtLeastOne(dt0)
        db == ShortWindowDelta(device)
        rt == RemainingTime(dt, rs_left, db)
        j == VeryShortWindowIndex(device.rs_last_mark)
        dtv == AtLeastOne(ElapsedSeconds(now, At(device.rs_mark_time, j)))
        dbv == USub(At(device.rs_mark_left, j), rs_left)
        dtl == AtLeastOne(ElapsedSeconds(now - device.rs_start - device.rs_paused, 0))
        dbl == LongWindowDelta(device)
        in_mb == UGt(device.rs_total, Pow2UL(2 + 30 - BM_BLOCK_SHIFT))
        bit_pos == IF IsVerify(device.repl_state)
                   THEN USub(device.bm_bits, device.ov_left)
                   ELSE device.bm_resync_fo
    IN  [bar |-> ProgressBar(res),
         label |-> IF IsVerify(device.repl_state) THEN "verified:" ELSE "sync'ed:",
         res |-> res,
         percent |-> <<UDivSmall(res, 10), UModSmall(res, 10)>>,
         unit |-> IF in_mb THEN "M" ELSE "K",
         left |-> Bit2KB(IF in_mb THEN UShr(rs_left, 10) ELSE rs_left),
         total |-> Bit2KB(IF in_mb THEN UShr(device.rs_total, 10) ELSE device.rs_total),
         finish |-> <<UDivSmall(rt, 3600), UModSmall(rt, 3600) \div 60, UModSmall(rt, 60)>>,
         speed |-> Speed(db, dt),
         speed_very_short |-> IF details >= 1 THEN <<Speed(dbv, dtv)>> ELSE <<>>,
         speed_long |-> Speed(dbl, dtl),
         want |-> IF device.repl_state = "L_SYNC_TARGET" \/ device.repl_state = "L_VERIFY_S"
                  THEN <<device.c_sync_rate>> ELSE <<>>,
         stalled |-> IsStalled(dt0),
         sector_pos |-> IF details >= 1
                        THEN <<ToUInt(UDiv(bit_pos, UAdd(UDivSmall(device.bm_bits, 100), UL(1)))),
                               UShl(bit_pos, BM_SECT_PER_BIT_SHIFT),
                               UShl(device.bm_bits, BM_SECT_PER_BIT_SHIFT)>>
                        ELSE <<>>]

(***************************************************************************)
(* State.                                                                  *)
(*   device       the fields of struct drbd_device (and of its peer        *)
(*                device and bitmap) that the estimator reads              *)
(*   jiffies      the kernel's clock                                       *)
(*   proc_details the module parameter                                     *)
(*   seq          what the last call of drbd_syncer_progress printed, kept *)
(*                while the device is as that call saw it; NoRead otherwise*)
(*   klog         the warnings that call logged                            *)
(*   ap, rd       the place of the appender and of a reader inside one     *)
(*                append and one read of the ring, for the interleavings   *)
(***************************************************************************)
VARIABLES device, jiffies, proc_details, seq, klog, ap, rd

vars == <<device, jiffies, proc_details, seq, klog, ap, rd>>

NoRead == [bar |-> <<>>]

MarkStep == DRBD_SYNC_MARK_STEP * HZ

\* the device when a resync or verify of rs_total bits starts at time now
\* (every mark holds the start)
StartedDevice(repl_state, rs_total, now) ==
    [repl_state |-> repl_state,
     rs_total |-> rs_total,
     ov_left |-> rs_total,
     bm_weight |-> rs_total,
     rs_failed |-> UL(0),
     bm_bits |-> rs_total,
     bm_resync_fo |-> UL(0),
     rs_last_mark |-> 0,
     rs_mark_time |-> [k \in 1..DRBD_SYNC_MARKS |-> now],
     rs_mark_left |-> [k \in 1..DRBD_SYNC_MARKS |-> rs_total],
     rs_start |-> now,
     rs_paused |-> 0,
     c_sync_rate |-> 250]

IdleAppender == [pc |-> "idle", next |-> 0, now |-> 0, still_to_go |-> UL(0)]
IdleReader == [pc |-> "idle", i |-> 0, time |-> 0, left |-> UL(0),
               newest_time |-> 0, newest_left |-> UL(0), overlap |-> 0]

(***************************************************************************)
(* The estimator as one step.                                              *)
(***************************************************************************)

\* an estimator that stores what it computed back into the device (C9)
StoringSyncerProgress ==
    /\ seq' = SyncerProgressText(device, jiffies, proc_details)
    /\ klog' = drbd_get_syncer_progress(device).warn
    /\ device' = [device EXCEPT !.ov_left = drbd_get_syncer_progress(device).bits_left]
    /\ UNCHANGED <<jiffies, proc_details, ap, rd>>

drbd_syncer_progress ==
    /\ seq' = SyncerProgressText(device, jiffies, proc_details)
    /\ klog' = drbd_get_syncer_progress(device).warn
    /\ UNCHANGED <<device, jiffies, proc_details, ap, rd>>

(***************************************************************************)
(* The resync driver: the code that owns the device and changes it between *)
(* two reads.                                                              *)
(***************************************************************************)

\* how far the model runs, in mark steps
MaxMarkSteps == 9

MaxJiffies == MaxMarkSteps * MarkStep + HZ

\* when the timer of the sample cadence fires next
NextMarkTime(now) == ((now \div MarkStep) + 1) * MarkStep

SyncTotal == UL(1000000)

\* the bits one request completes or dirties
SyncChunk == UShr(SyncTotal, 1)

\* the sample of now is written to the slot after rs_last_mark, then the
\* cursor moves there
AdvanceMarks(d, now) ==
    LET next == (d.rs_last_mark + 1) % DRBD_SYNC_MARKS
    IN  [d EXCEPT !.rs_mark_time[next + 1] = now,
                  !.rs_mark_left[next + 1] = BitsLeft(d),
                  !.rs_last_mark = next]

Connected == device.rs_total # UL(0)

\* a mark step passes and the appender takes its sample
Tick ==
    /\ Connected
    /\ device.rs_paused = 0
    /\ NextMarkTime(jiffies) <= MaxJiffies
    /\ jiffies' = NextMarkTime(jiffies)
    /\ device' = AdvanceMarks(device, NextMarkTime(jiffies))
    /\ seq' = NoRead /\ klog' = {}
    /\ UNCHANGED <<proc_details, ap, rd>>

\* a mark step passes with the resync paused: no sample, the time is
\* accounted as paused
Idle ==
    /\ Connected
    /\ NextMarkTime(jiffies) <= MaxJiffies
    /\ jiffies' = NextMarkTime(jiffies)
    /\ device' = [device EXCEPT !.rs_paused = @ + (NextMarkTime(jiffies) - jiffies)]
    /\ seq' = NoRead /\ klog' = {}
    /\ UNCHANGED <<proc_details, ap, rd>>

\* a jiffy passes inside the current second
Drift ==
    /\ (jiffies % HZ) + 1 < HZ
    /\ jiffies + 1 <= MaxJiffies
    /\ jiffies' = jiffies + 1
    /\ seq' = NoRead /\ klog' = {}
    /\ UNCHANGED <<device, proc_details, ap, rd>>

\* a chunk is synced or verified; at most one between two samples
Progress ==
    /\ Connected
    /\ device.rs_paused = 0
    /\ BitsLeft(device) = At(device.rs_mark_left, device.rs_last_mark)
    /\ ULe(SyncChunk, BitsLeft(device))
    /\ device' = IF IsVerify(device.repl_state)
                 THEN [device EXCEPT !.ov_left = USub(@, SyncChunk)]
                 ELSE [device EXCEPT !.bm_weight = USub(@, SyncChunk),
                                     !.bm_resync_fo = UAdd(@, SyncChunk)]
    /\ seq' = NoRead /\ klog' = {}
    /\ UNCHANGED <<jiffies, proc_details, ap, rd>>

\* the connection is lost while a reader is already past the check of
\* repl_state: the totals are cleared, what is left is not
Disconnect ==
    /\ Connected
    /\ device' = [device EXCEPT !.rs_total = UL(0), !.rs_failed = UL(0)]
    /\ seq' = NoRead /\ klog' = {}
    /\ UNCHANGED <<jiffies, proc_details, ap, rd>>

\* a resync as target or a verify as source has just started
Init ==
    /\ \E rs \in {"L_SYNC_TARGET", "L_VERIFY_S"} : device = StartedDevice(rs, SyncTotal, 0)
    /\ jiffies = 0
    /\ proc_details = 1
    /\ seq = NoRead
    /\ klog = {}
    /\ ap = IdleAppender
    /\ rd = IdleReader

Next ==
    \/ drbd_syncer_progress
    \/ Tick
    \/ Idle
    \/ Drift
    \/ Progress
    \/ Disconnect

Spec == Init /\ [][Next]_vars

(***************************************************************************)
(* The estimator over the range of its inputs: a device as a read may find *)
(* it, with totals around every power of two up to 2^MaxTotalBits, and     *)
(* what is left at, near and beyond the ends of 0..rs_total.               *)
(***************************************************************************)

MaxTotalBits == 39

EdgeDelta == 1

\* rs_total' is 1024 here, so that the per-mille values 1..1000 all occur
BarSweepTotal == UL(1023 * 1024)

InputTotals ==
    ({UAdd(Pow2UL(k), UL(d)) : k \in 0..MaxTotalBits, d \in 0..EdgeDelta}
     \cup {USub(Pow2UL(k), UL(d)) : k \in 1..MaxTotalBits, d \in 1..EdgeDelta}
     \cup {SyncTotal, BarSweepTotal})
    \ {UL(0)}

InputRemaining(total) ==
    {UL(0), total, USub(total, UL(1)), UAdd(total, UL(1)),
     UShr(total, 1), UShr(total, 2), USub(total, UShr(total, 2))}

\* every multiple of 1024 up to the total, for the total of the sweep
SweepRemaining(total) ==
    IF total = BarSweepTotal
    THEN {UShl(UL(k), 10) : k \in 0..ToNat(UShr(total, 10))}
    ELSE {}

\* the devices a read may find with rs_total = total: a verify with ov_left
\* bits left; a resync with its weight, less the failed bits, left
DevicesWith(total) ==
    {[StartedDevice(rs, total, 0) EXCEPT !.ov_left = r, !.bm_weight = r] :
        rs \in {"L_VERIFY_S", "L_VERIFY_T"},
        r \in InputRemaining(total) \cup SweepRemaining(total)}
    \cup
    {[StartedDevice(rs, total, 0) EXCEPT !.bm_weight = UAdd(r, UL(f)),
                                         !.rs_failed = UL(f)] :
        rs \in {"L_SYNC_SOURCE", "L_SYNC_TARGET"}, f \in {0, 1},
        r \in InputRemaining(total)}

\* and a resync that has lost more bits to failures than its weight
InputDevices ==
    UNION {DevicesWith(total) : total \in InputTotals}
    \cup
    {[StartedDevice(rs, SyncTotal, 0) EXCEPT !.bm_weight = UL(0), !.rs_failed = UL(1)] :
        rs \in {"L_SYNC_SOURCE", "L_SYNC_TARGET"}}

InitInputs ==
    /\ device \in InputDevices
    /\ jiffies = (DRBD_SYNC_MARKS - 2) * MarkStep
    /\ proc_details = 0
    /\ seq = NoRead
    /\ klog = {}
    /\ ap = IdleAppender
    /\ rd = IdleReader

NextInputs == drbd_syncer_progress

SpecInputs == InitInputs /\ [][NextInputs]_vars

(***************************************************************************)
(* One appender and one reader on the ring, statement by statement.  The   *)
(* appender writes the time and the bits left of the slot after            *)
(* rs_last_mark and then moves rs_last_mark; the reader reads rs_last_mark *)
(* once and then the time and the bits left of the slot two after it.      *)
(* The ring is full and on cadence: a sample every mark step, one bit done *)
(* between two samples.                                                    *)
(***************************************************************************)

MaxAppends == 3

RingDevice(rs) ==
    [StartedDevice(rs, SyncTotal, 0) EXCEPT
        !.ov_left = USub(SyncTotal, UL(DRBD_SYNC_MARKS - 1)),
        !.bm_weight = USub(SyncTotal, UL(DRBD_SYNC_MARKS - 1)),
        !.rs_last_mark = DRBD_SYNC_MARKS - 1,
        !.rs_mark_time = [k \in 1..DRBD_SYNC_MARKS |-> (k - 1) * MarkStep],
        !.rs_mark_left = [k \in 1..DRBD_SYNC_MARKS |-> USub(SyncTotal, UL(k - 1))]]

InitMarks ==
    /\ \E rs \in {"L_SYNC_TARGET", "L_VERIFY_S"} : device = RingDevice(rs)
    /\ jiffies = (DRBD_SYNC_MARKS - 1) * MarkStep
    /\ proc_details = 1
    /\ seq = NoRead
    /\ klog = {}
    /\ ap = IdleAppender
    /\ rd = IdleReader

Reading == rd.pc = "time" \/ rd.pc = "left"

\* the timer fires: one more bit is done, the appender starts on its sample
AppendBegin ==
    /\ ap.pc = "idle"
    /\ jiffies + MarkStep <= (DRBD_SYNC_MARKS - 1 + MaxAppends) * MarkStep
    /\ jiffies' = jiffies + MarkStep
    /\ device' = IF IsVerify(device.repl_state)
                 THEN [device EXCEPT !.ov_left = USub(@, UL(1))]
                 ELSE [device EXCEPT !.bm_weight = USub(@, UL(1))]
    /\ ap' = [pc |-> "time",
              next |-> (device.rs_last_mark + 1) % DRBD_SYNC_MARKS,
              now |-> jiffies',
              still_to_go |-> BitsLeft(device')]
    /\ rd' = [rd EXCEPT !.overlap = IF Reading THEN @ + 1 ELSE @]
    /\ UNCHANGED <<proc_details, seq, klog>>

AppendTime ==
    /\ ap.pc = "time"
    /\ device' = [device EXCEPT !.rs_mark_time[ap.next + 1] = ap.now]
    /\ ap' = [ap EXCEPT !.pc = "left"]
    /\ UNCHANGED <<jiffies, proc_details, seq, klog, rd>>

AppendLeft ==
    /\ ap.pc = "left"
    /\ device' = [device EXCEPT !.rs_mark_left[ap.next + 1] = ap.still_to_go]
    /\ ap' = [ap EXCEPT !.pc = "cursor"]
    /\ UNCHANGED <<jiffies, proc_details, seq, klog, rd>>

AppendCursor ==
    /\ ap.pc = "cursor"
    /\ device' = [device EXCEPT !.rs_last_mark = ap.next]
    /\ ap' = IdleAppender
    /\ UNCHANGED <<jiffies, proc_details, seq, klog, rd>>

\* i = (device->rs_last_mark + 2) % DRBD_SYNC_MARKS
ReadCursor ==
    /\ rd.pc = "idle"
    /\ rd' = [pc |-> "time",
              i |-> ShortWindowIndex(device.rs_last_mark),
              time |-> 0,
              left |-> UL(0),
              newest_time |-> At(device.rs_mark_time, device.rs_last_mark),
              newest_left |-> At(device.rs_mark_left, device.rs_last_mark),
              overlap |-> IF ap.pc = "idle" THEN 0 ELSE 1]
    /\ UNCHANGED <<device, jiffies, proc_details, seq, klog, ap>>

\* dt = (jiffies - device->rs_mark_time[i]) / HZ
ReadTime ==
    /\ rd.pc = "time"
    /\ rd' = [rd EXCEPT !.pc = "left", !.time = At(device.rs_mark_time, rd.i)]
    /\ UNCHANGED <<device, jiffies, proc_details, seq, klog, ap>>

\* db = device->rs_mark_left[i] - rs_left
ReadLeft ==
    /\ rd.pc = "left"
    /\ rd' = [rd EXCEPT !.pc = "done", !.left = At(device.rs_mark_left, rd.i)]
    /\ UNCHANGED <<device, jiffies, proc_details, seq, klog, ap>>

ReadReturn ==
    /\ rd.pc = "done"
    /\ rd' = IdleReader
    /\ UNCHANGED <<device, jiffies, proc_details, seq, klog, ap>>

NextMarks ==
    \/ AppendBegin
    \/ AppendTime
    \/ AppendLeft
    \/ AppendCursor
    \/ ReadCursor
    \/ ReadTime
    \/ ReadLeft
    \/ ReadReturn

SpecMarks == InitMarks /\ [][NextMarks]_vars

(***************************************************************************)
(* The claims.                                                             *)
(***************************************************************************)

Printed == seq # NoRead

Warned == klog # {}

\* what is left, by the kind of operation, as the data model defines it
Remaining ==
    IF device.repl_state \in {"L_VERIFY_S", "L_VERIFY_T"}
    THEN device.ov_left
    ELSE USub(device.bm_weight, device.rs_failed)

\* total > 0 and 0 <= remaining <= total
InRange == device.rs_total # UL(0) /\ ULe(Remaining, device.rs_total)

\* C1: for every total > 0 and every remaining with 0 <= remaining <= total
\* the per-mille value drbd_get_syncer_progress produces lies in 0..1000,
\* and the subtraction 1000 - left*1000/total' does not wrap below zero
\* (the quotient it subtracts is at most 1000).
C1_PerMilleInRange ==
    (Printed /\ InRange) =>
        /\ ULe(seq.res, UL(1000))
        /\ ULe(UDiv(PerMilProduct(Remaining, device.rs_total),
                    PerMilTotal(device.rs_total)), UL(1000))

C1_Witness ==
    /\ Printed /\ InRange
    /\ UGt(device.rs_total, UINT_MAX)
    /\ Remaining = UShr(device.rs_total, 1)
    /\ seq.res = UL(501)

\* C2: for every total > 0, nothing remaining reports per-mille 1000 and
\* everything remaining reports per-mille 0.
C2_EndsExact ==
    (Printed /\ device.rs_total # UL(0)) =>
        /\ Remaining = UL(0) => seq.res = UL(1000)
        /\ Remaining = device.rs_total => seq.res = UL(0)

\* C3: the warning branch is taken exactly when remaining > total, for the
\* verify kinds (remaining = ov_left) and the sync kinds (remaining = weight
\* - failed) alike; then the per-mille printed is 0 and the call returns
\* with its line printed; no warning is logged in any other case.
C3_WarnIffExceeds ==
    Printed =>
        /\ Warned <=> UGt(Remaining, device.rs_total)
        /\ Warned => seq.res = UL(0)
        /\ klog \subseteq {[cs |-> device.repl_state, rs_left |-> Remaining,
                            rs_total |-> device.rs_total,
                            rs_failed |-> device.rs_failed]}

C3_Witness ==
    /\ Printed /\ Warned
    /\ device.repl_state = "L_SYNC_TARGET"
    /\ Remaining = UAdd(device.rs_total, UL(1))
    /\ device.rs_failed = UL(1)
    /\ seq.res = UL(0)

\* 1000 - floor(remaining * 1000 / total), computed at full width, no shift
DirectPerMille(remaining, total) ==
    USub(UL(1000), UDiv(UMulSmall(remaining, 1000), total))

ScenarioTotal == UL(1000000)
ScenarioRemaining == UL(250000)

C6_FitsIn32Bits ==
    (Printed /\ InRange /\ ULe(device.rs_total, Pow2UL(PETABYTE_BITS))) =>
        /\ Fits32(PerMilLeft(Remaining, device.rs_total))
        /\ Fits32(PerMilTotal(device.rs_total))
        /\ Fits32(PerMilProduct(Remaining, device.rs_total))
        \* and the product is the true one: dividing it by 1000 gives left back
        /\ UDivSmall(PerMilProduct(Remaining, device.rs_total), 1000)
             = PerMilLeft(Remaining, device.rs_total)

C6_Witness ==
    /\ Printed
    /\ device.rs_total = Pow2UL(PETABYTE_BITS)
    /\ Remaining = device.rs_total
    /\ PerMilProduct(Remaining, device.rs_total) = UMulSmall(Pow2UL(22), 1000)

Count(bar, c) == Cardinality({k \in 1..Len(bar) : bar[k] = c})

\* filled cells, then the marker, then empty cells
BarShape(bar) ==
    \A k \in 1..Len(bar) :
        /\ k < Count(bar, "=") + 1 => bar[k] = "="
        /\ k = Count(bar, "=") + 1 => bar[k] = ">"
        /\ k > Count(bar, "=") + 1 => bar[k] = "."

\* C7: for every per-mille p in 0..1000 the bar between "[" and "]" is
\* exactly 20 cells: filled cells, exactly one marker, empty cells, with
\* floor(p/50) filled cells; p = 0 has no filled cell before the marker,
\* p = 500 has exactly 10 filled cells, p = 1000 has no empty cell.
C7_BarTwentyCells ==
    (Printed /\ ULe(seq.res, UL(1000))) =>
        /\ Len(seq.bar) = 20
        /\ Count(seq.bar, ">") = 1
        /\ BarShape(seq.bar)
        /\ ToNat(seq.res) < 1000 => Count(seq.bar, "=") = ToNat(seq.res) \div 50
        /\ ToNat(seq.res) = 1000 => Count(seq.bar, ".") = 0

\* jiffies since the sample of the short window, the slot two after the cursor
ShortWindowAge ==
    jiffies - At(device.rs_mark_time, (device.rs_last_mark + 2) % DRBD_SYNC_MARKS)

\* N * tick_interval, in jiffies
StallThreshold == DRBD_SYNC_MARKS * DRBD_SYNC_MARK_STEP * HZ

C8_SpeedsClampedWhenExceeds ==
    (Printed /\ Warned) =>
        /\ seq.speed_long = UL(0)
        /\ ULe(Remaining,
               At(device.rs_mark_left, (device.rs_last_mark + 2) % DRBD_SYNC_MARKS))
           \/ seq.speed = UL(0)

\* C9: a call of the estimator, on the normal path and on the path of
\* remaining > total alike, leaves every field of the device unchanged: the
\* totals, the failed and verify counts, start and paused time, the rate, the
\* kind, every sample and the cursor.  (Only the estimator leaves a line
\* printed; every step that ends with one is a call.)
C9_EstimatorChangesNothing ==
    [][seq' # NoRead => device' = device]_vars

C9_Witness ==
    /\ Printed /\ Warned
    /\ device.rs_last_mark # 0
    /\ device.rs_paused # 0
    /\ BitsLeft(device) # SyncTotal

\* C10: with at most one append overlapping the read, the slot the reader
\* uses is never the slot being written, and the time and the bits left it
\* reads are those of one sample: the one N-2 mark steps older than the
\* newest sample at the moment the reader read rs_last_mark.
C10_ReaderSlotSettled ==
    /\ (Reading /\ rd.overlap <= 1 /\ ap.pc \in {"time", "left"}) => ap.next # rd.i
    /\ (rd.pc = "done" /\ rd.overlap <= 1) =>
          /\ rd.time = rd.newest_time - (DRBD_SYNC_MARKS - 2) * MarkStep
          /\ rd.left = UAdd(rd.newest_left, UL(DRBD_SYNC_MARKS - 2))

C10_Witness ==
    /\ rd.pc = "done"
    /\ rd.overlap = 1
    /\ ap.pc = "idle"
====
